---- MODULE Spec2Model ----
(***************************************************************************)
(* Tiered storage of billing records (devops_screening_script.py):         *)
(* ingest_data writes records into the Hot directory, manage_data_tiers    *)
(* demotes them Hot -> Cool -> Archive by the age of invoice_date, and     *)
(* retrieve_data looks a record up in Hot, Cool, Archive and rehydrates an *)
(* Archive hit into the rehydrated directory.                              *)
(*                                                                         *)
(* A directory is a function from record number to the file stored under   *)
(* that record's name.  Time is counted in seconds.  Every file operation  *)
(* of the script is one step, and every place where the script catches an  *)
(* exception of a file operation has that outcome as a choice of the step. *)
(***************************************************************************)
EXTENDS Integers, FiniteSets, TLC

\* ------------------------------------------------------------------ bounds
MaxRecords == 2        \* record numbers BILL-00001 .. BILL-0000<MaxRecords>
MaxFaults == 1         \* file operations that fail in one behaviour
MaxFixture == 2        \* files found in the data directories at startup

\* ----------------------------------------------------- program constants
HOT_TIER_RETENTION_MONTHS == 3
COOL_TIER_RETENTION_MONTHS == 12
COOL_COMPRESSION_LEVEL == 5
ARCHIVE_COMPRESSION_LEVEL == 9
Day == 86400               \* seconds in one day of timedelta.days
MonthCentiDays == 3044     \* 30.44 days, in hundredths of a day
FastRetrievalSec == 5      \* retrieval_time_sec, high priority
SlowRetrievalSec == 15     \* retrieval_time_sec, standard

Ids == 1 .. MaxRecords
Callers == {1, 2}          \* the request paths that may call retrieve_data

\* The instants at which the clock is observed: the start and one day later.
TimePoints == {0, Day}
\* days_ago values entered at the prompt
DaysAgoChoices == {91, 365}

\* ------------------------------------------------------------ record data
\* What json.loads gives back for a file, or None.  dk: "iso" a record with
\* an ISO invoice_date, "missing" a record without the invoice_date key,
\* "bad" a record whose invoice_date does not parse, "none" Python's None.
None == [dk |-> "none", rid |-> 0, date |-> 0]

generate_billing_record(record_id, date) ==
    [dk |-> "iso", rid |-> record_id, date |-> date]

\* ------------------------------------------------------------------ files
NoFile == [k |-> "nofile", gz |-> FALSE, level |-> 0, data |-> None]
\* a file whose bytes are a strict prefix of a payload: open(..., 'wb')
\* truncated it and the write did not complete
Torn == [k |-> "torn", gz |-> FALSE, level |-> 0, data |-> None]

WriteOutcomes == {"ok", "denied", "torn"}
ReadOutcomes == {"ok", "err"}
RemoveOutcomes == {"ok", "err"}

\* write_data: the file found at file_path afterwards.  The exception of a
\* failed write is caught inside write_data, so the caller cannot see it.
write_data(old, data, compress_level, outcome) ==
    CASE outcome = "ok" ->
            IF compress_level = 0
            THEN [k |-> "ok", gz |-> FALSE, level |-> 0, data |-> data]
            ELSE [k |-> "ok", gz |-> TRUE, level |-> compress_level, data |-> data]
      [] outcome = "denied" -> old
      [] OTHER -> Torn

\* read_data: the decoded record, or None on any exception.
read_data(file, compressed, outcome) ==
    IF outcome = "err" \/ file.k # "ok" \/ file.gz # compressed
    THEN None
    ELSE file.data

exists(file) == file.k # "nofile"

\* os.listdir(path), filtered by the suffix the loop asks for
listdir(dir) == {i \in Ids : exists(dir[i])}

\* (mutation) the age is taken from the elapsed seconds, not from whole days
AgeInSecondsAtLeast(t, invoice_date, months) ==
    t - invoice_date >= months * MonthCentiDays * (Day \div 100)

\* age_in_months >= months, for age_in_months = (now - invoice_date).days / 30.44
AgeAtLeast(t, invoice_date, months) ==
    ((t - invoice_date) \div Day) * 100 >= months * MonthCentiDays

\* ------------------------------------------------------------------ state
VARIABLES
    hot, cool, archive,   \* data/hot, data/cool, data/archive
    rehydrated,           \* data/rehydrated/<id>.json
    temp,                 \* data/rehydrated/<id>.json.gz
    now,                  \* datetime.now()
    faults,               \* file operations that have failed so far
    pc, passNow, todo, cur, rd,  \* manage_data_tiers: position, now, rest of
                                 \* the listing, filename, record_data
    rpc, rarg, rdata, rwait, rres,  \* retrieve_data, per caller: position,
                                 \* arguments, data, seconds slept, return value
    rerr,                 \* history: a file operation of this call failed
    \* history, read by no action's guard or effect on the program state:
    failed,               \* records a file operation of this pass failed on
    start,                \* the tiers when this pass began
    prev,                 \* the tiers when the previous pass ended
    crash,                \* the record whose move an interruption cut short
    ingested,             \* per record: the calls of write_data by ingest_data
                          \* (counted to 2) and the record of the only call
    rbase,                \* per caller: the rehydrated directory when the
                          \* call began, for a call that runs on its own
    last                  \* the last call that ran on its own, with no failed
                          \* file operation, on the tiers as they are now

tiers == <<hot, cool, archive>>
cacheVars == <<rehydrated, temp>>
passVars == <<pc, passNow, todo, cur, rd>>
retrVars == <<rpc, rarg, rdata, rwait, rres, rerr>>
histVars == <<failed, start, prev, crash, ingested, rbase, last>>

vars == <<hot, cool, archive, rehydrated, temp, now, faults,
          passVars, retrVars, histVars>>

EmptyDir == [i \in Ids |-> NoFile]
NoTiers == <<EmptyDir, EmptyDir, EmptyDir>>
NoPrev == [valid |-> FALSE, moved |-> FALSE, at |-> 0, t |-> NoTiers]
NoCrash == [id |-> 0, data |-> None, alone |-> FALSE]
NoArg == [id |-> 0, high_priority |-> FALSE]
NeverIngested == [n |-> 0, data |-> None]
NoBase == [alone |-> FALSE, cache |-> <<EmptyDir, EmptyDir>>]
NoLast == [id |-> 0, res |-> None, cache |-> <<EmptyDir, EmptyDir>>]

InitLocals ==
    /\ rehydrated = EmptyDir /\ temp = EmptyDir
    /\ now = 0
    /\ faults = 0
    /\ pc = "idle" /\ passNow = 0 /\ todo = {} /\ cur = 0 /\ rd = None
    /\ rpc = [c \in Callers |-> "idle"]
    /\ rarg = [c \in Callers |-> NoArg]
    /\ rdata = [c \in Callers |-> None]
    /\ rwait = [c \in Callers |-> 0]
    /\ rres = [c \in Callers |-> None]
    /\ rerr = [c \in Callers |-> FALSE]
    /\ failed = {} /\ start = NoTiers /\ prev = NoPrev /\ crash = NoCrash
    /\ ingested = [i \in Ids |-> NeverIngested]
    /\ rbase = [c \in Callers |-> NoBase] /\ last = NoLast

\* setup_directories() on a machine without a data directory
Init ==
    /\ hot = EmptyDir /\ cool = EmptyDir /\ archive = EmptyDir
    /\ InitLocals

\* ------------------------------------------ directories found at startup
\* setup_directories() keeps what the data directories already hold
\* (os.makedirs(path, exist_ok=True)).  The files below are the ones whose
\* handling the code distinguishes, dated relative to the start (now = 0):
\* exactly 3 * 30.44 and 12 * 30.44 days old, exactly 92 and 366 days old,
\* one second younger than that, and records json.loads reads but whose
\* invoice_date is absent or does not parse.
Threshold(months) == months * MonthCentiDays * (Day \div 100)   \* seconds

Plain(data) == write_data(NoFile, data, 0, "ok")
Zipped(data, level) == write_data(NoFile, data, level, "ok")
Missing(i) == [dk |-> "missing", rid |-> i, date |-> 0]
Bad(i) == [dk |-> "bad", rid |-> i, date |-> 0]

Places == Ids \X (1 .. 3)          \* <<record, tier>>: 1 Hot, 2 Cool, 3 Archive
Kinds == {"threshold", "young", "due", "old", "missing", "bad", "torn"}
KindsAt(tier) == IF tier = 3 THEN {"old"} ELSE Kinds

\* the age of a record of the kind, in seconds
AgeOf(tier, kind) ==
    CASE kind = "threshold" ->
            Threshold(IF tier = 1 THEN HOT_TIER_RETENTION_MONTHS
                                  ELSE COOL_TIER_RETENTION_MONTHS)
      [] kind = "young" -> (IF tier = 1 THEN 92 ELSE 366) * Day - 1
      [] kind = "due" -> (IF tier = 1 THEN 92 ELSE 366) * Day
      [] OTHER -> (IF tier = 1 THEN 366 ELSE 400) * Day

FixtureData(i, tier, kind) ==
    CASE kind = "missing" -> Missing(i)
      [] kind = "bad" -> Bad(i)
      [] OTHER -> generate_billing_record(i, 0 - AgeOf(tier, kind))

\* the file of record i in the tier, written as this program writes there
FixtureFile(i, tier, kind) ==
    CASE kind = "torn" -> Torn
      [] tier = 1 -> Plain(FixtureData(i, tier, kind))
      [] tier = 2 -> Zipped(FixtureData(i, tier, kind), COOL_COMPRESSION_LEVEL)
      [] OTHER -> Zipped(FixtureData(i, tier, kind), ARCHIVE_COMPRESSION_LEVEL)

\* the directory of the tier when the places P hold files of the kinds f
FixtureDir(tier, P, f) ==
    [i \in Ids |-> IF <<i, tier>> \in P
                   THEN FixtureFile(i, tier, f[<<i, tier>>]) ELSE NoFile]

\* at most MaxFixture files, of the kinds in allowed, are there at startup
Startup(allowed) ==
    \E P \in SUBSET Places :
      /\ Cardinality(P) <= MaxFixture
      /\ \E f \in [P -> allowed] :
           /\ \A p \in P : f[p] \in KindsAt(p[2])
           /\ hot = FixtureDir(1, P, f)
           /\ cool = FixtureDir(2, P, f)
           /\ archive = FixtureDir(3, P, f)

InitFix == Startup(Kinds) /\ InitLocals

\* well-formed records only, each old enough to leave the tier it is in
InitConc == Startup({"due", "old"}) /\ InitLocals

\* n more file operations fail
Inject(n) == faults + n <= MaxFaults /\ faults' = faults + n
Outcome(out) == Inject(IF out = "ok" THEN 0 ELSE 1)

\* nothing is running: the menu of main() is waiting for a choice
Quiet == pc = "idle" /\ \A c \in Callers : rpc[c] = "idle"

\* datetime.now() read later than before
Tick(t) ==
    /\ Quiet
    /\ t > now
    /\ now' = t
    /\ UNCHANGED <<tiers, cacheVars, faults, passVars, retrVars, histVars>>

\* ingest_data(num_records, days_ago); outs[i] is the outcome of write i
ingest_data(num_records, days_ago, outs) ==
    /\ Quiet
    /\ \A i \in Ids : i > num_records => outs[i] = "ok"
    /\ Inject(Cardinality({i \in Ids : outs[i] # "ok"}))
    /\ hot' = [i \in Ids |->
                 IF i <= num_records
                 THEN write_data(hot[i],
                                 generate_billing_record(i, now - days_ago * Day),
                                 0, outs[i])
                 ELSE hot[i]]
    /\ prev' = NoPrev /\ crash' = NoCrash
    /\ ingested' = [i \in Ids |->
                      IF i > num_records THEN ingested[i]
                      ELSE IF ingested[i].n = 0
                      THEN [n |-> 1,
                            data |-> generate_billing_record(i, now - days_ago * Day)]
                      ELSE [n |-> 2, data |-> None]]
    /\ last' = NoLast
    /\ UNCHANGED <<cool, archive, cacheVars, now, passVars, retrVars,
                   failed, start, rbase>>

\* ------------------------------------------------------ manage_data_tiers
\* "if not record_data or 'invoice_date' not in record_data: continue", and
\* datetime.fromisoformat raising into the loop's except
Usable(record_data) == record_data.dk = "iso"

\* the failures of this pass, with one more when out is a failure
Noted(i, out) == IF out = "ok" THEN failed ELSE failed \cup {i}

\* now = datetime.now(); for filename in os.listdir(HOT_TIER_PATH)
StartPass ==
    /\ pc = "idle"
    /\ pc' = "hot"
    /\ passNow' = now
    /\ todo' = listdir(hot)
    /\ failed' = {} /\ start' = tiers
    /\ rbase' = [c \in Callers |-> NoBase] /\ last' = NoLast
    /\ UNCHANGED <<tiers, cacheVars, now, faults, cur, rd, retrVars, prev, crash,
                   ingested>>

\* (mutation) a record that cannot be read ends the loop: break, not continue
HotNextBreaks(i, out) ==
    /\ Outcome(out)
    /\ pc = "hot" /\ i \in todo
    /\ LET record_data == read_data(hot[i], FALSE, out) IN
         /\ todo' = IF Usable(record_data) THEN todo \ {i} ELSE {}
         /\ IF Usable(record_data)
               /\ AgeAtLeast(passNow, record_data.date, HOT_TIER_RETENTION_MONTHS)
            THEN pc' = "hot_write" /\ cur' = i /\ rd' = record_data
            ELSE pc' = "hot" /\ UNCHANGED <<cur, rd>>
    /\ failed' = Noted(i, out)
    /\ UNCHANGED <<tiers, cacheVars, now, passNow, retrVars, start, prev, crash,
                   ingested, rbase, last>>

\* (mutation) a file that does not decode to a dated record is deleted
HotNextPurges(i, out) ==
    /\ Outcome(out)
    /\ pc = "hot" /\ i \in todo
    /\ todo' = todo \ {i}
    /\ LET record_data == read_data(hot[i], FALSE, out) IN
         /\ IF Usable(record_data)
               /\ AgeAtLeast(passNow, record_data.date, HOT_TIER_RETENTION_MONTHS)
            THEN pc' = "hot_write" /\ cur' = i /\ rd' = record_data
            ELSE pc' = "hot" /\ UNCHANGED <<cur, rd>>
         /\ hot' = IF Usable(record_data) THEN hot ELSE [hot EXCEPT ![i] = NoFile]
    /\ failed' = Noted(i, out)
    /\ UNCHANGED <<cool, archive, cacheVars, now, passNow, retrVars, start,
                   prev, crash, ingested, rbase, last>>

\* (mutation) Hot gives up only the records of Cool's age range, 3 up to 12
\* months
HotNextUpToCoolAge(i, out) ==
    /\ Outcome(out)
    /\ pc = "hot" /\ i \in todo
    /\ todo' = todo \ {i}
    /\ LET record_data == read_data(hot[i], FALSE, out) IN
         IF /\ Usable(record_data)
            /\ AgeAtLeast(passNow, record_data.date, HOT_TIER_RETENTION_MONTHS)
            /\ ~AgeAtLeast(passNow, record_data.date, COOL_TIER_RETENTION_MONTHS)
         THEN pc' = "hot_write" /\ cur' = i /\ rd' = record_data
         ELSE pc' = "hot" /\ UNCHANGED <<cur, rd>>
    /\ failed' = Noted(i, out)
    /\ UNCHANGED <<tiers, cacheVars, now, passNow, retrVars, start, prev, crash,
                   ingested, rbase, last>>

\* One iteration of the Hot loop up to the age test: read, check, compare.
HotNext(i, out) ==
    /\ Outcome(out)
    /\ pc = "hot" /\ i \in todo
    /\ todo' = todo \ {i}
    /\ LET record_data == read_data(hot[i], FALSE, out) IN
         IF Usable(record_data)
            /\ AgeAtLeast(passNow, record_data.date, HOT_TIER_RETENTION_MONTHS)
         THEN pc' = "hot_write" /\ cur' = i /\ rd' = record_data
         ELSE pc' = "hot" /\ UNCHANGED <<cur, rd>>
    /\ failed' = Noted(i, out)
    /\ UNCHANGED <<tiers, cacheVars, now, passNow, retrVars, start, prev, crash,
                   ingested, rbase, last>>

\* write_data(cool_file_path, record_data, compress_level=COOL_COMPRESSION_LEVEL)
HotWrite(out) ==
    /\ Outcome(out)
    /\ pc = "hot_write"
    /\ cool' = [cool EXCEPT ![cur] =
                  write_data(cool[cur], rd, COOL_COMPRESSION_LEVEL, out)]
    /\ pc' = "hot_rm"
    /\ failed' = Noted(cur, out)
    /\ UNCHANGED <<hot, archive, cacheVars, now, passNow, todo, cur, rd,
                   retrVars, start, prev, crash, ingested, rbase, last>>

\* (mutation) the file is left where it is
RemoveSkipped(dir, i, out) == dir

\* os.remove(path): the directory afterwards.  It raises when the file is
\* not there or may not be removed, and the loop's except catches that.
remove(dir, i, out) ==
    IF out = "ok" /\ exists(dir[i]) THEN [dir EXCEPT ![i] = NoFile] ELSE dir

\* os.remove(file_path), reached whatever write_data did
HotRemove(out) ==
    /\ Outcome(out)
    /\ pc = "hot_rm"
    /\ hot' = remove(hot, cur, out)
    /\ pc' = "hot" /\ cur' = 0 /\ rd' = None
    /\ failed' = Noted(cur, out)
    /\ UNCHANGED <<cool, archive, cacheVars, now, passNow, todo, retrVars,
                   start, prev, crash, ingested, rbase, last>>

\* (mutation) both directories are listed before the Hot loop runs
CoolListingAtStart == listdir(start[2])

\* the Hot loop is over: for filename_gz in os.listdir(COOL_TIER_PATH)
CoolListing == listdir(cool)

HotDone ==
    /\ pc = "hot" /\ todo = {}
    /\ pc' = "cool"
    /\ todo' = CoolListing
    /\ UNCHANGED <<tiers, cacheVars, now, faults, passNow, cur, rd, retrVars,
                   histVars>>

CoolNext(i, out) ==
    /\ Outcome(out)
    /\ pc = "cool" /\ i \in todo
    /\ todo' = todo \ {i}
    /\ LET record_data == read_data(cool[i], TRUE, out) IN
         IF Usable(record_data)
            /\ AgeAtLeast(passNow, record_data.date, COOL_TIER_RETENTION_MONTHS)
         THEN pc' = "cool_write" /\ cur' = i /\ rd' = record_data
         ELSE pc' = "cool" /\ UNCHANGED <<cur, rd>>
    /\ failed' = Noted(i, out)
    /\ UNCHANGED <<tiers, cacheVars, now, passNow, retrVars, start, prev, crash,
                   ingested, rbase, last>>

\* (mutation) the archived record is stamped with the time of the pass
CoolWriteRestamps(out) ==
    /\ Outcome(out)
    /\ pc = "cool_write"
    /\ archive' = [archive EXCEPT ![cur] =
                     write_data(archive[cur],
                                generate_billing_record(cur, passNow),
                                ARCHIVE_COMPRESSION_LEVEL, out)]
    /\ pc' = "cool_rm"
    /\ failed' = Noted(cur, out)
    /\ UNCHANGED <<hot, cool, cacheVars, now, passNow, todo, cur, rd,
                   retrVars, start, prev, crash, ingested, rbase, last>>

\* write_data(archive_file_path, record_data,
\*            compress_level=ARCHIVE_COMPRESSION_LEVEL)
CoolWrite(out) ==
    /\ Outcome(out)
    /\ pc = "cool_write"
    /\ archive' = [archive EXCEPT ![cur] =
                     write_data(archive[cur], rd, ARCHIVE_COMPRESSION_LEVEL, out)]
    /\ pc' = "cool_rm"
    /\ failed' = Noted(cur, out)
    /\ UNCHANGED <<hot, cool, cacheVars, now, passNow, todo, cur, rd,
                   retrVars, start, prev, crash, ingested, rbase, last>>

CoolRemove(out) ==
    /\ Outcome(out)
    /\ pc = "cool_rm"
    /\ cool' = remove(cool, cur, out)
    /\ pc' = "cool" /\ cur' = 0 /\ rd' = None
    /\ failed' = Noted(cur, out)
    /\ UNCHANGED <<hot, archive, cacheVars, now, passNow, todo, retrVars,
                   start, prev, crash, ingested, rbase, last>>

\* print("Tier management process completed.")
PassDone ==
    /\ pc = "cool" /\ todo = {}
    /\ pc' = "idle"
    /\ passNow' = 0
    /\ prev' = IF failed = {}
               THEN [valid |-> TRUE, moved |-> tiers # start,
                     at |-> passNow, t |-> tiers]
               ELSE NoPrev
    /\ failed' = {} /\ start' = NoTiers /\ crash' = NoCrash
    /\ UNCHANGED <<tiers, cacheVars, now, faults, todo, cur, rd, retrVars,
                   ingested, rbase, last>>

\* the steps of manage_data_tiers after its first
PassStep ==
    \/ \E i \in Ids, out \in ReadOutcomes : HotNext(i, out)
    \/ \E out \in WriteOutcomes : HotWrite(out)
    \/ \E out \in RemoveOutcomes : HotRemove(out)
    \/ HotDone
    \/ \E i \in Ids, out \in ReadOutcomes : CoolNext(i, out)
    \/ \E out \in WriteOutcomes : CoolWrite(out)
    \/ \E out \in RemoveOutcomes : CoolRemove(out)
    \/ PassDone

\* The process is stopped inside manage_data_tiers (no handler catches a
\* KeyboardInterrupt or a kill) and main() is started again: the directories
\* are as they were left, the locals are gone.
Interrupt ==
    /\ pc # "idle"
    /\ pc' = "idle" /\ passNow' = 0 /\ todo' = {} /\ cur' = 0 /\ rd' = None
    /\ crash' = CASE pc = "hot_rm" ->
                       [id |-> cur, data |-> rd, alone |-> ~exists(archive[cur])]
                  [] pc = "cool_rm" ->
                       [id |-> cur, data |-> rd, alone |-> ~exists(hot[cur])]
                  [] OTHER -> NoCrash
    /\ failed' = {} /\ start' = NoTiers /\ prev' = NoPrev
    /\ UNCHANGED <<tiers, cacheVars, now, faults, retrVars, ingested, rbase, last>>

\* ---------------------------------------------------------- retrieve_data
\* "if data:" is false for None (and for an empty dict, which no file of
\* the model decodes to)
Truthy(data) == data.dk # "none"

\* caller c moves to position p; the other callers stay
Goto(c, p) == rpc' = [rpc EXCEPT ![c] = p]
\* caller c is about to return v
Return(c, v) == rres' = [rres EXCEPT ![c] = v] /\ Goto(c, "done")
Erred(c, out) == rerr' = [rerr EXCEPT ![c] = rerr[c] \/ out # "ok"]

\* retrieve_data(record_id, high_priority) is called
RStart(c, record_id, high_priority) ==
    /\ rpc[c] = "idle"
    /\ Goto(c, "chk_hot")
    /\ rarg' = [rarg EXCEPT ![c] =
                  [id |-> record_id, high_priority |-> high_priority]]
    /\ rbase' = [d \in Callers |->
                   IF d = c /\ Quiet THEN [alone |-> TRUE, cache |-> cacheVars]
                   ELSE NoBase]
    /\ UNCHANGED <<tiers, cacheVars, now, faults, passVars, rdata, rwait, rres,
                   rerr, failed, start, prev, crash, ingested, last>>

\* (mutation) the Cool directory is probed before the Hot directory
RCheckCoolFirst(c) ==
    /\ rpc[c] = "chk_hot"
    /\ Goto(c, IF exists(cool[rarg[c].id]) THEN "read_cool"
               ELSE IF exists(hot[rarg[c].id]) THEN "read_hot" ELSE "chk_arch")
    /\ UNCHANGED <<tiers, cacheVars, now, faults, passVars, rarg, rdata, rwait,
                   rres, rerr, histVars>>

\* os.path.exists(file_path_hot)
RCheckHot(c) ==
    /\ rpc[c] = "chk_hot"
    /\ Goto(c, IF exists(hot[rarg[c].id]) THEN "read_hot" ELSE "chk_cool")
    /\ UNCHANGED <<tiers, cacheVars, now, faults, passVars, rarg, rdata, rwait,
                   rres, rerr, histVars>>

\* data = read_data(file_path_hot); return data
RReadHot(c, out) ==
    /\ Outcome(out)
    /\ rpc[c] = "read_hot"
    /\ Return(c, read_data(hot[rarg[c].id], FALSE, out))
    /\ Erred(c, out)
    /\ UNCHANGED <<tiers, cacheVars, now, passVars, rarg, rdata, rwait, histVars>>

\* os.path.exists(file_path_cool)
RCheckCool(c) ==
    /\ rpc[c] = "chk_cool"
    /\ Goto(c, IF exists(cool[rarg[c].id]) THEN "read_cool" ELSE "chk_arch")
    /\ UNCHANGED <<tiers, cacheVars, now, faults, passVars, rarg, rdata, rwait,
                   rres, rerr, histVars>>

\* data = read_data(file_path_cool, compressed=True); return data
RReadCool(c, out) ==
    /\ Outcome(out)
    /\ rpc[c] = "read_cool"
    /\ Return(c, read_data(cool[rarg[c].id], TRUE, out))
    /\ Erred(c, out)
    /\ UNCHANGED <<tiers, cacheVars, now, passVars, rarg, rdata, rwait, histVars>>

\* os.path.exists(file_path_archive), else "not found in any tier"
RCheckArchive(c) ==
    /\ rpc[c] = "chk_arch"
    /\ IF exists(archive[rarg[c].id])
       THEN Goto(c, "sleep") /\ UNCHANGED rres
       ELSE Return(c, None)
    /\ UNCHANGED <<tiers, cacheVars, now, faults, passVars, rarg, rdata, rwait,
                   rerr, histVars>>

\* time.sleep(retrieval_time_sec)
RSleep(c) ==
    /\ rpc[c] = "sleep"
    /\ rwait' = [rwait EXCEPT ![c] = IF rarg[c].high_priority
                                     THEN FastRetrievalSec ELSE SlowRetrievalSec]
    /\ Goto(c, "copy")
    /\ UNCHANGED <<tiers, cacheVars, now, faults, passVars, rarg, rdata, rres,
                   rerr, histVars>>

\* (mutation) the archive file is moved to the temporary name, not copied
RCopyMoves(c, out) ==
    /\ Outcome(out)
    /\ rpc[c] = "copy"
    /\ LET id == rarg[c].id IN
         IF exists(archive[id])
         THEN /\ temp' = [temp EXCEPT ![id] =
                            CASE out = "ok" -> archive[id]
                              [] out = "denied" -> temp[id]
                              [] OTHER -> Torn]
              /\ archive' = remove(archive, id, out)
              /\ IF out = "ok" THEN Goto(c, "read_tmp") /\ UNCHANGED rres
                               ELSE Return(c, None)
         ELSE UNCHANGED <<temp, archive>> /\ Return(c, None)
    /\ Erred(c, out)
    /\ UNCHANGED <<hot, cool, rehydrated, now, passVars, rarg, rdata, rwait,
                   histVars>>

\* shutil.copyfile(file_path_archive, f"{rehydrated_path}.gz"): the bytes of
\* the archive file, or an exception that ends the call with None
RCopy(c, out) ==
    /\ Outcome(out)
    /\ rpc[c] = "copy"
    /\ LET id == rarg[c].id IN
         IF exists(archive[id])
         THEN /\ temp' = [temp EXCEPT ![id] =
                            CASE out = "ok" -> archive[id]
                              [] out = "denied" -> temp[id]
                              [] OTHER -> Torn]
              /\ IF out = "ok" THEN Goto(c, "read_tmp") /\ UNCHANGED rres
                               ELSE Return(c, None)
         ELSE UNCHANGED temp /\ Return(c, None)
    /\ Erred(c, out)
    /\ UNCHANGED <<tiers, rehydrated, now, passVars, rarg, rdata, rwait, histVars>>

\* (mutation) an entry of the rehydrated directory is used when there is one
RReadTempPrefersCache(c, out) ==
    /\ Outcome(out)
    /\ rpc[c] = "read_tmp"
    /\ LET id == rarg[c].id IN
         rdata' = [rdata EXCEPT ![c] =
                     IF exists(rehydrated[id])
                     THEN read_data(rehydrated[id], FALSE, out)
                     ELSE read_data(temp[id], TRUE, out)]
    /\ Goto(c, "rm_tmp")
    /\ Erred(c, out)
    /\ UNCHANGED <<tiers, cacheVars, now, passVars, rarg, rwait, rres, histVars>>

\* data = read_data(f"{rehydrated_path}.gz", compressed=True)
RReadTemp(c, out) ==
    /\ Outcome(out)
    /\ rpc[c] = "read_tmp"
    /\ rdata' = [rdata EXCEPT ![c] = read_data(temp[rarg[c].id], TRUE, out)]
    /\ Goto(c, "rm_tmp")
    /\ Erred(c, out)
    /\ UNCHANGED <<tiers, cacheVars, now, passVars, rarg, rwait, rres, histVars>>

\* os.remove(f"{rehydrated_path}.gz"), then "if data:"
RRemoveTemp(c, out) ==
    /\ Outcome(out)
    /\ rpc[c] = "rm_tmp"
    /\ LET id == rarg[c].id IN
         /\ temp' = remove(temp, id, out)
         /\ IF out = "ok" /\ exists(temp[id]) /\ Truthy(rdata[c])
            THEN Goto(c, "write_cache") /\ UNCHANGED rres
            ELSE Return(c, None)
    /\ Erred(c, out)
    /\ UNCHANGED <<tiers, rehydrated, now, passVars, rarg, rdata, rwait, histVars>>

\* (mutation) the rehydrated record is written back into the Hot directory
RWriteCachePromotes(c, out) ==
    /\ Outcome(out)
    /\ rpc[c] = "write_cache"
    /\ LET id == rarg[c].id IN
         hot' = [hot EXCEPT ![id] = write_data(hot[id], rdata[c], 0, out)]
    /\ Return(c, rdata[c])
    /\ Erred(c, out)
    /\ UNCHANGED <<cool, archive, cacheVars, now, passVars, rarg, rdata, rwait,
                   histVars>>

\* write_data(rehydrated_path, data); return data
RWriteCache(c, out) ==
    /\ Outcome(out)
    /\ rpc[c] = "write_cache"
    /\ LET id == rarg[c].id IN
         rehydrated' = [rehydrated EXCEPT ![id] =
                          write_data(rehydrated[id], rdata[c], 0, out)]
    /\ Return(c, rdata[c])
    /\ Erred(c, out)
    /\ UNCHANGED <<tiers, temp, now, passVars, rarg, rdata, rwait, histVars>>

\* the caller has the return value; the locals are gone
RReturn(c) ==
    /\ rpc[c] = "done"
    /\ Goto(c, "idle")
    /\ rarg' = [rarg EXCEPT ![c] = NoArg]
    /\ rdata' = [rdata EXCEPT ![c] = None]
    /\ rwait' = [rwait EXCEPT ![c] = 0]
    /\ rres' = [rres EXCEPT ![c] = None]
    /\ rerr' = [rerr EXCEPT ![c] = FALSE]
    /\ rbase' = [rbase EXCEPT ![c] = NoBase]
    /\ last' = IF ~rerr[c] /\ rbase[c].alone
               THEN [id |-> rarg[c].id, res |-> rres[c],
                     cache |-> rbase[c].cache]
               ELSE last
    /\ UNCHANGED <<tiers, cacheVars, now, faults, passVars, failed, start, prev,
                   crash, ingested>>

\* the steps of retrieve_data after the call
RetrieveStep(c) ==
    \/ RCheckHot(c)
    \/ \E out \in ReadOutcomes : RReadHot(c, out)
    \/ RCheckCool(c)
    \/ \E out \in ReadOutcomes : RReadCool(c, out)
    \/ RCheckArchive(c)
    \/ RSleep(c)
    \/ \E out \in WriteOutcomes : RCopy(c, out)
    \/ \E out \in ReadOutcomes : RReadTemp(c, out)
    \/ \E out \in RemoveOutcomes : RRemoveTemp(c, out)
    \/ \E out \in WriteOutcomes : RWriteCache(c, out)
    \/ RReturn(c)

\* --------------------------------------------------------- specifications
\* main(): one menu choice at a time
Next ==
    \/ \E t \in TimePoints : Tick(t)
    \/ \E n \in Ids, d \in DaysAgoChoices, outs \in [Ids -> WriteOutcomes] :
          ingest_data(n, d, outs)
    \/ Quiet /\ StartPass
    \/ PassStep
    \/ \E id \in Ids, hp \in BOOLEAN : Quiet /\ RStart(1, id, hp)
    \/ RetrieveStep(1)

Spec == Init /\ [][Next]_vars

\* main() with the process stopped and started again at any point of a pass
NextCrash == Next \/ Interrupt

SpecCrash == Init /\ [][NextCrash]_vars

\* passes and retrievals over whatever the directories held at startup
NextFix ==
    \/ Quiet /\ StartPass
    \/ PassStep
    \/ \E id \in Ids, hp \in BOOLEAN : Quiet /\ RStart(1, id, hp)
    \/ RetrieveStep(1)

SpecFix == InitFix /\ [][NextFix]_vars

\* two request paths calling retrieve_data at the same time
NextConc ==
    \/ \E c \in Callers, id \in Ids, hp \in BOOLEAN : RStart(c, id, hp)
    \/ \E c \in Callers : RetrieveStep(c)

SpecConc == InitConc /\ [][NextConc]_vars

\* manage_data_tiers run by a scheduler while a request path calls
\* retrieve_data: the steps of the two interleave in any order
NextRace ==
    \/ StartPass
    \/ PassStep
    \/ \E id \in Ids, hp \in BOOLEAN : RStart(1, id, hp)
    \/ RetrieveStep(1)

SpecRace == InitConc /\ [][NextRace]_vars

\* ------------------------------------------------------------------ claims
\* both loops of manage_data_tiers have run to their end
PassEnd == pc = "cool" /\ todo = {}

TiersHolding(i) == {k \in 1 .. 3 : exists(tiers[k][i])}

\* the record the file of i in dir decodes to when the read does not fail
Stored(dir, i, compressed) == read_data(dir[i], compressed, "ok")

\* C1: starting from empty tiers, at the end of every completed pass each
\* identifier is in at most one of Hot, Cool, Archive (stated for the
\* behaviours in which no file operation has failed).
C1_AtMostOneTier ==
    PassEnd /\ faults = 0 => \A i \in Ids : Cardinality(TiersHolding(i)) <= 1

\* C2: the step that deletes a record from its source tier leaves the record
\* readable in Hot, Cool or Archive, whatever the destination write did.
C2_NoRecordLost ==
    [][\/ pc = "hot_rm" /\ pc' = "hot"
       \/ pc = "cool_rm" /\ pc' = "cool"
       => \/ Stored(hot', cur, FALSE) = rd
          \/ Stored(cool', cur, TRUE) = rd
          \/ Stored(archive', cur, TRUE) = rd]_vars

\* C3: a pass that follows a pass in which nothing failed, at the same
\* evaluation time and with no ingestion in between, ends with the tiers as
\* the first pass left them.
C3_SecondPassMovesNothing ==
    PassEnd /\ prev.valid /\ prev.at = passNow => tiers = prev.t

\* a second pass ends after a first one that moved a record from Hot through
\* Cool into Archive
C3_Witness ==
    /\ PassEnd /\ prev.valid /\ prev.at = passNow /\ prev.moved
    /\ \E i \in Ids : exists(archive[i])

\* The pass has ended without a failed file operation; Elapsed is the time
\* from the invoice_date of a well-formed file to the pass's now.
CleanEnd == PassEnd /\ failed = {}
Elapsed(file) == passNow - file.data.date
WellFormed(file) == file.k = "ok" /\ file.data.dk = "iso"
\* the pass took the record of i out of Hot, resp. out of Cool into Archive
LeftHot(i) == ~exists(hot[i])
LeftCool(i) == ~exists(cool[i]) /\ Stored(archive, i, TRUE) = start[2][i].data
\* a file of Cool that no record of Hot has the name of
OnlyInCool(i) == WellFormed(start[2][i]) /\ ~exists(start[1][i])

\* C4 (as claimed): a record exactly age_threshold_months * 30.44 days old is
\* demoted by the pass and a record one second younger is not, for the Hot
\* policy (3 months) and the Cool policy (12 months).
C4_InclusiveAtThreshold ==
    CleanEnd =>
      \A i \in Ids :
        /\ WellFormed(start[1][i]) =>
             /\ Elapsed(start[1][i]) = Threshold(HOT_TIER_RETENTION_MONTHS)
                  => LeftHot(i)
             /\ Elapsed(start[1][i]) = Threshold(HOT_TIER_RETENTION_MONTHS) - 1
                  => hot[i] = start[1][i]
        /\ OnlyInCool(i) =>
             /\ Elapsed(start[2][i]) = Threshold(COOL_TIER_RETENTION_MONTHS)
                  => LeftCool(i)
             /\ Elapsed(start[2][i]) = Threshold(COOL_TIER_RETENTION_MONTHS) - 1
                  => cool[i] = start[2][i]

\* C4 (amended): eligibility is inclusive in whole elapsed days.  3 * 30.44 =
\* 91.32 and 12 * 30.44 = 365.28, so a record is demoted from Hot when 92
\* days or more have elapsed and from Cool when 366 days or more have: the
\* record exactly 92 (366) days old moves, the one a second younger stays.
C4_InclusiveInWholeDays ==
    CleanEnd =>
      \A i \in Ids :
        /\ WellFormed(start[1][i]) =>
             IF Elapsed(start[1][i]) >= 92 * Day
             THEN LeftHot(i) ELSE hot[i] = start[1][i]
        /\ OnlyInCool(i) =>
             IF Elapsed(start[2][i]) >= 366 * Day
             THEN LeftCool(i) ELSE cool[i] = start[2][i]

\* one pass met a Hot record exactly 92 days old and a Cool record one second
\* short of 366 days
C4_Witness ==
    /\ CleanEnd
    /\ \E i, j \in Ids :
         /\ WellFormed(start[1][i]) /\ Elapsed(start[1][i]) = 92 * Day
         /\ LeftHot(i)
         /\ OnlyInCool(j) /\ Elapsed(start[2][j]) = 366 * Day - 1
         /\ cool[j] = start[2][j]

\* caller c has slept and is copying, decoding or caching the record
Rehydrating(c) == rpc[c] \in {"copy", "read_tmp", "rm_tmp", "write_cache"}
\* record i is in Archive only, and its file there decodes
ArchiveResident(i) ==
    /\ ~exists(hot[i]) /\ ~exists(cool[i])
    /\ Truthy(Stored(archive, i, TRUE))

\* of two callers retrieving the same identifier at the same time at most
\* one is rehydrating it
C5_OneRehydrationAtATime ==
    \A c, d \in Callers :
      c # d /\ rarg[c].id = rarg[d].id => ~(Rehydrating(c) /\ Rehydrating(d))

\* a caller whose own file operations all succeeded returns the decoded
\* record of an Archive-resident identifier
C5_NoCallerFails ==
    \A c \in Callers :
      rpc[c] = "done" /\ ~rerr[c] /\ ArchiveResident(rarg[c].id)
        => rres[c] = Stored(archive, rarg[c].id, TRUE)

\* C5: when two calls retrieve the same Archive-resident identifier at the
\* same time, at most one rehydration runs for it and neither caller gets a
\* failure or an empty result.
C5_CoalescedRehydration == C5_OneRehydrationAtATime /\ C5_NoCallerFails

\* the record retrieve_data finds first when it probes Hot, Cool, Archive
FirstHit(i) ==
    IF exists(hot[i]) THEN Stored(hot, i, FALSE)
    ELSE IF exists(cool[i]) THEN Stored(cool, i, TRUE)
    ELSE IF exists(archive[i]) THEN Stored(archive, i, TRUE)
    ELSE None

\* C6: a call whose file operations all succeed returns the copy of the first
\* of Hot, Cool, Archive that holds the identifier, and it has slept for a
\* rehydration exactly when the identifier is in Archive only.
C6_FirstHitInProbeOrder ==
    \A c \in Callers :
      rpc[c] = "done" /\ ~rerr[c] =>
        LET i == rarg[c].id IN
          /\ rres[c] = FirstHit(i)
          /\ rwait[c] > 0 <=>
               ~exists(hot[i]) /\ ~exists(cool[i]) /\ exists(archive[i])

\* a call returned the Hot copy of a record whose Cool copy differs from it
C6_Witness ==
    \E c \in Callers :
      /\ rpc[c] = "done" /\ ~rerr[c]
      /\ LET i == rarg[c].id IN
           /\ exists(hot[i]) /\ exists(cool[i])
           /\ Truthy(Stored(hot, i, FALSE)) /\ Truthy(Stored(cool, i, TRUE))
           /\ Stored(hot, i, FALSE) # Stored(cool, i, TRUE)
           /\ rres[c] = Stored(hot, i, FALSE)

\* C7: only ingest_data puts a name into Hot; a name comes into Cool only by
\* manage_data_tiers writing the record it read from Hot, into Archive only
\* by its writing the record it read from Cool; no step takes a name out of
\* Archive.
C7_Monotonic ==
    [][\A i \in Ids :
         /\ ~exists(hot[i]) /\ exists(hot'[i])
              => \E n \in Ids, d \in DaysAgoChoices, outs \in [Ids -> WriteOutcomes] :
                    ingest_data(n, d, outs)
         /\ ~exists(cool[i]) /\ exists(cool'[i])
              => pc = "hot_write" /\ cur = i /\ exists(hot[i])
         /\ ~exists(archive[i]) /\ exists(archive'[i])
              => pc = "cool_write" /\ cur = i /\ exists(cool[i])
         /\ exists(archive[i]) => exists(archive'[i])]_vars

\* a record has gone from Hot through Cool into Archive and a retrieval has
\* rehydrated it
C7_Witness ==
    \E i \in Ids :
      /\ exists(archive[i]) /\ exists(rehydrated[i])
      /\ ~exists(hot[i]) /\ ~exists(cool[i])

\* C8: when the process was stopped between the destination write and the
\* source delete of a record (a record in no third tier), the next pass, if
\* it runs to its end with no failed file operation and with no ingestion in
\* between, leaves the record in exactly one tier, with the content read
\* before the stop.
C8_RetryCompletesMove ==
    CleanEnd /\ crash.id # 0 /\ crash.alone =>
      /\ Cardinality(TiersHolding(crash.id)) = 1
      /\ \A k \in TiersHolding(crash.id) :
           Stored(tiers[k], crash.id, k # 1) = crash.data

\* the retry has run to its end after a stop that left the record in two tiers
C8_Witness ==
    /\ CleanEnd /\ crash.id # 0 /\ crash.alone
    /\ Cardinality({k \in 1 .. 3 : exists(start[k][crash.id])}) = 2

\* where a pass that starts with these tiers leaves the record of i when no
\* file operation on i fails
MovedAsDue(i) ==
    LET h == Stored(start[1], i, FALSE)
        c == Stored(start[2], i, TRUE)
    IN  IF Usable(h) /\ AgeAtLeast(passNow, h.date, HOT_TIER_RETENTION_MONTHS)
        THEN /\ ~exists(hot[i])
             /\ IF AgeAtLeast(passNow, h.date, COOL_TIER_RETENTION_MONTHS)
                THEN ~exists(cool[i]) /\ Stored(archive, i, TRUE) = h
                ELSE Stored(cool, i, TRUE) = h
        ELSE Usable(c) /\ AgeAtLeast(passNow, c.date, COOL_TIER_RETENTION_MONTHS)
               => ~exists(cool[i]) /\ Stored(archive, i, TRUE) = c

\* C9: a pass runs to its end whatever file operations fail in it, and has
\* then moved every eligible record on which no file operation failed.
C9_FailureIsolated ==
    PassEnd => \A i \in Ids \ failed : MovedAsDue(i)

\* a pass has ended in which a file operation on one record failed and
\* another record was moved out of Hot
C9_Witness ==
    /\ PassEnd /\ failed # {}
    /\ \E i \in Ids \ failed :
         /\ exists(start[1][i]) /\ ~exists(hot[i])
         /\ exists(cool[i]) \/ exists(archive[i])

\* the file decodes to no record with a usable invoice_date
Unusable(file, compressed) ==
    exists(file) /\ ~Usable(read_data(file, compressed, "ok"))

ArchiveOnly(i) == ~exists(hot[i]) /\ ~exists(cool[i]) /\ exists(archive[i])

\* C11: a retrieval of a record that ingest_data wrote once and that passes
\* have since demoted to Archive, in a behaviour with no failed file
\* operation, returns the record as ingest_data wrote it, under either
\* priority; the call has slept 5 seconds with high priority and 15 without,
\* and 5 < 15.
C11_RoundTrip ==
    /\ FastRetrievalSec < SlowRetrievalSec
    /\ \A c \in Callers :
         LET i == rarg[c].id IN
           rpc[c] = "done" /\ faults = 0 /\ ArchiveOnly(i) /\ ingested[i].n = 1
             => /\ rres[c] = ingested[i].data
                /\ rwait[c] = IF rarg[c].high_priority
                              THEN FastRetrievalSec ELSE SlowRetrievalSec

\* a high-priority retrieval has returned an archived record that an earlier
\* retrieval had rehydrated before
C11_Witness ==
    \E c \in Callers :
      LET i == rarg[c].id IN
        /\ rpc[c] = "done" /\ faults = 0 /\ ArchiveOnly(i) /\ ingested[i].n = 1
        /\ rarg[c].high_priority /\ rwait[c] = FastRetrievalSec
        /\ Truthy(rres[c]) /\ rres[c] = rehydrated[i].data

\* the positions of a call that has not got past the probes of Hot and Cool
BeforeArchive == {"idle", "chk_hot", "read_hot", "chk_cool", "read_cool"}

\* C12: no step of retrieve_data, whatever its outcome, changes a file of
\* Hot, Cool or Archive; and the steps of a call up to its return from a hit
\* in Hot or Cool change neither the rehydrated directory nor the temporary
\* file.
C12_RetrieveKeepsTiers ==
    [][\A c \in Callers :
         rpc'[c] # rpc[c] =>
           /\ tiers' = tiers
           /\ rpc[c] \in BeforeArchive => cacheVars' = cacheVars]_vars

\* a call has rehydrated a record and the archive file is still there
C12_Witness ==
    \E c \in Callers :
      LET i == rarg[c].id IN
        /\ rpc[c] = "done" /\ rwait[c] > 0 /\ Truthy(rres[c])
        /\ Stored(archive, i, TRUE) = rres[c]
        /\ Stored(rehydrated, i, FALSE) = rres[c]

\* caller c returns in this step, and returns the decoded archive record
Returns(c) == rpc[c] # "done" /\ rpc'[c] = "done"
ReturnsArchived(c) == rres'[c] = Stored(archive, rarg[c].id, TRUE)

\* the call returns the record although write_data(rehydrated_path, data)
\* failed or tore the file
C13_WriteFailureNonFatal ==
    [][\A c \in Callers :
         Returns(c) /\ rpc[c] = "write_cache" /\ ArchiveResident(rarg[c].id)
           => ReturnsArchived(c)]_vars

\* the call returns the record although the copy to, or the removal of, the
\* temporary file in the rehydrated directory failed
C13_TempFailureNonFatal ==
    [][\A c \in Callers :
         /\ Returns(c) /\ rpc[c] = "copy" /\ ArchiveResident(rarg[c].id)
              => ReturnsArchived(c)
         /\ Returns(c) /\ rpc[c] = "rm_tmp" /\ ArchiveResident(rarg[c].id)
              /\ rdata[c] = Stored(archive, rarg[c].id, TRUE)
              => ReturnsArchived(c)]_vars

\* C13: a call for an Archive-resident record whose archive file decodes
\* returns the decoded record whatever write, copy or removal in the
\* rehydrated directory fails.
C13_CacheFailureNonFatal == C13_WriteFailureNonFatal /\ C13_TempFailureNonFatal

\* C14: starting from empty tiers, no file of Hot, Cool or Archive is ever
\* a truncated payload: under its name a reader finds the complete payload
\* of some write_data call.
C14_NoTornArtifact ==
    \A i \in Ids : \A k \in 1 .. 3 : tiers[k][i].k # "torn"

\* a call that runs while a pass runs, with no failed file operation, returns
\* a record when some tier holds the identifier
C15_NeverMissing ==
    \A c \in Callers :
      rpc[c] = "done" /\ faults = 0 /\ TiersHolding(rarg[c].id) # {}
        => Truthy(rres[c]) /\ rres[c].rid = rarg[c].id

\* the file a call found with os.path.exists is there when the call reads it
C15_PresentAtRead ==
    \A c \in Callers :
      /\ rpc[c] = "read_hot" => exists(hot[rarg[c].id])
      /\ rpc[c] = "read_cool" => exists(cool[rarg[c].id])

\* C15: a retrieval interleaved with a pass that moves the same well-formed
\* record returns the record, and never finds the identifier at its existence
\* check and misses it at its read.
C15_RetrieveDuringPass == C15_NeverMissing /\ C15_PresentAtRead

\* the identifier of the call of c that takes this step
Requested(c) == IF rpc[c] = "idle" THEN rarg'[c].id ELSE rarg[c].id

\* the steps of a call for an identifier that no tier holds change no tier
\* and no file of the rehydrated directory, do not sleep, and return None
C16_AbsentYieldsNone ==
    [][\A c \in Callers :
         rpc'[c] # rpc[c] /\ TiersHolding(Requested(c)) = {} =>
           /\ tiers' = tiers /\ cacheVars' = cacheVars
           /\ rwait'[c] = 0
           /\ Returns(c) => rres'[c] = None]_vars

\* a call returns None only for an identifier that no tier holds
C16_NoneOnlyWhenAbsent ==
    [][\A c \in Callers :
         Returns(c) /\ rres'[c] = None => TiersHolding(rarg[c].id) = {}]_vars

\* C16: retrieve_data returns None, without a delay and without a change to
\* the tiers or the rehydrated directory, for an identifier absent from Hot,
\* Cool and Archive, and returns None for no other identifier.
C16_NotFound == C16_AbsentYieldsNone /\ C16_NoneOnlyWhenAbsent

\* the record of i in dir is well-formed and months or more old at the pass
Eligible(dir, i, compressed, months) ==
    /\ Usable(Stored(dir, i, compressed))
    /\ AgeAtLeast(passNow, Stored(dir, i, compressed).date, months)

\* C17: when a pass has run to its end with no failed file operation, no
\* well-formed record of Hot is 3 months old or older and no well-formed
\* record of Cool is 12 months old or older, a record the same pass moved
\* into Cool included (the age as the pass computes it, in whole days).
C17_NoEligibleLeft ==
    CleanEnd =>
      \A i \in Ids :
        /\ ~Eligible(hot, i, FALSE, HOT_TIER_RETENTION_MONTHS)
        /\ ~Eligible(cool, i, TRUE, COOL_TIER_RETENTION_MONTHS)

\* one pass has taken a record older than 12 months from Hot to Archive and
\* left a younger record in Hot
C17_Witness ==
    /\ CleanEnd
    /\ \E i, j \in Ids :
         /\ Eligible(start[1], i, FALSE, COOL_TIER_RETENTION_MONTHS)
         /\ ~exists(start[2][i]) /\ ~exists(start[3][i])
         /\ ArchiveOnly(i) /\ Stored(archive, i, TRUE) = start[1][i].data
         /\ Usable(Stored(hot, j, FALSE)) /\ hot[j] = start[1][j]

\* the pass found a well-formed record younger than months in tier k
Ineligible(k, i, months) ==
    /\ Usable(Stored(start[k], i, k # 1))
    /\ ~AgeAtLeast(passNow, start[k][i].data.date, months)

\* tier k holds the record data under i now and did not when the pass began
NewCopy(k, i, data) ==
    Stored(tiers[k], i, k # 1) = data /\ Stored(start[k], i, k # 1) # data

\* a pass leaves a record of Hot younger than 3 months as it was
C18_HotUntouched ==
    PassEnd /\ faults = 0 =>
      \A i \in Ids :
        Ineligible(1, i, HOT_TIER_RETENTION_MONTHS) =>
          /\ hot[i] = start[1][i]
          /\ \A k \in {2, 3} : ~NewCopy(k, i, start[1][i].data)

\* a pass leaves a record of Cool younger than 12 months as it was
C18_CoolUntouched ==
    PassEnd /\ faults = 0 =>
      \A i \in Ids :
        Ineligible(2, i, COOL_TIER_RETENTION_MONTHS) =>
          /\ cool[i] = start[2][i]
          /\ \A k \in {1, 3} : ~NewCopy(k, i, start[2][i].data)

\* C18: a pass that starts from what ingest_data and earlier passes left, and
\* in which no file operation fails, leaves every record that is not eligible
\* under the policy of its tier in that tier with the same payload and
\* compression, and puts no copy of it into another tier.
C18_IneligibleUntouched == C18_HotUntouched /\ C18_CoolUntouched

\* caller c ran on its own, no file operation of the call failed, and it is
\* about to return
CleanCall(c) == rpc[c] = "done" /\ ~rerr[c] /\ rbase[c].alone

\* a call returns what the last call for the same identifier on the same
\* tiers returned, whatever the rehydrated directory held when each began
C19_SameResult ==
    \A c \in Callers :
      CleanCall(c) /\ last.id = rarg[c].id => rres[c] = last.res

\* after a call has rehydrated a record, the file of the rehydrated
\* directory is the uncompressed archive record
C19_CacheFollowsArchive ==
    \A c \in Callers :
      LET i == rarg[c].id IN
        CleanCall(c) /\ ArchiveOnly(i) /\ Truthy(rres[c])
          => rehydrated[i] = Plain(Stored(archive, i, TRUE))

\* C19: retrieve_data, run with no failed file operation, returns the same
\* for the same identifier and the same Hot, Cool and Archive whatever the
\* rehydrated directory holds, and a call that rehydrates a record leaves the
\* rehydrated file equal to the decoded archive record in place of any
\* earlier file.
C19_CacheNotAuthoritative == C19_SameResult /\ C19_CacheFollowsArchive

\* a call has returned the same archived record as the call before it, which
\* had begun with a truncated file in the rehydrated directory and replaced it
C19_Witness ==
    \E c \in Callers :
      LET i == rarg[c].id IN
        /\ CleanCall(c) /\ last.id = i /\ ArchiveOnly(i)
        /\ last.cache[1][i] = Torn /\ rbase[c].cache # last.cache
        /\ Truthy(rres[c]) /\ rres[c] = last.res

====
